---- MODULE Spec2Model ----
(***************************************************************************)
(* A model of the Helm values UI backend (backend/main.py): the descriptor *)
(* (config.yaml) held in module globals, path normalisation, JSON-schema   *)
(* synthesis from the values document, and the selective merge of an       *)
(* update document into the values document; and the git synchronisation  *)
(* of the values document around the requests (backend/git_helper.py).     *)
(*                                                                         *)
(* Strings are sequences of one-character strings, so that the regular     *)
(* expression of normalize_path and the string operations of the title     *)
(* derivation are computed character by character.  A YAML/JSON value is a *)
(* tagged record: Scalar, List or Dict (a function from keys to values).   *)
(***************************************************************************)
EXTENDS Naturals, Sequences, FiniteSets, TLC

VARIABLES
    norm,               \* the normalize_path calls under study
    config_file,        \* config.yaml on disk: its state and content
    config,             \* global config
    readonly_fields,    \* global readonly_fields
    enum_fields,        \* global enum_fields
    field_titles,       \* global field_titles
    field_descriptions, \* global field_descriptions
    sections_config,    \* global sections_config
    ui_config,          \* global ui_config
    values_file,        \* values.yaml on disk: the parsed document
    call,               \* the last request handled, with what it read and returned
    reload,             \* the thread running reload_config, statement by statement
    reader,             \* a thread running create_json_schema, lookup by lookup
    git_helper,         \* the GitHelper object: its settings and self.repo
    repo,               \* the clone: HEAD, the remote branch, untracked files
    disk,               \* whether VALUES_FILE can be opened for writing
    trace,              \* what the request in `call` did to the file and to git, in order
    snapshot,           \* the clone as it was when the request in `call` began
    updaters            \* threads running update_values, statement by statement

vars == << norm, config_file, config, readonly_fields, enum_fields, field_titles,
           field_descriptions, sections_config, ui_config, values_file, call,
           reload, reader, git_helper, repo, disk, trace, snapshot, updaters >>

\* What the requests leave alone unless they synchronise with git.
sync_vars == << git_helper, repo, disk, trace, snapshot >>

globals == << config, readonly_fields, enum_fields, field_titles,
              field_descriptions, sections_config, ui_config >>

-----------------------------------------------------------------------------
(* Bounds of the model. *)

\* Longest path string handed to normalize_path on its own.
MaxPathLen == 6

-----------------------------------------------------------------------------
(* Strings. *)

Digits == {"0", "1", "2", "3", "4", "5", "6", "7", "8", "9"}

\* The characters of the paths normalize_path is tried on.
PathAlphabet == {"a", "0", ".", "[", "]"}

RECURSIVE StringsUpTo(_, _)
StringsUpTo(alphabet, n) ==
    IF n = 0 THEN {<<>>}
    ELSE LET shorter == StringsUpTo(alphabet, n - 1)
         IN  shorter \cup {Append(s, c) : s \in {t \in shorter : Len(t) = n - 1},
                                          c \in alphabet}

RECURSIVE DigitsEnd(_, _)
\* The first position from j on that holds no digit (Len(s) + 1 when none).
DigitsEnd(s, j) ==
    IF j <= Len(s) /\ s[j] \in Digits THEN DigitsEnd(s, j + 1) ELSE j

\* Where the match of \[\d+\] that starts at position i ends; 0 when the
\* pattern does not match at i.
MatchIndexAt(s, i) ==
    IF s[i] # "[" THEN 0
    ELSE LET j == DigitsEnd(s, i + 1)
         IN  IF j > i + 1 /\ j <= Len(s) /\ s[j] = "]" THEN j ELSE 0

RECURSIVE ReSubIndex(_, _)
\* re.sub(r'\[\d+\]', '', s) from position i on: one left-to-right pass over
\* the non-overlapping matches; what a deletion brings together is not
\* scanned again.
ReSubIndex(s, i) ==
    IF i > Len(s) THEN <<>>
    ELSE LET e == MatchIndexAt(s, i)
         IN  IF e > 0 THEN ReSubIndex(s, e + 1)
             ELSE <<s[i]>> \o ReSubIndex(s, i + 1)

normalize_path(path) == ReSubIndex(path, 1)

-----------------------------------------------------------------------------
(* YAML / JSON values. *)

Scalar(kind, v) == [t |-> "scalar", kind |-> kind, v |-> v]
Str(v) == Scalar("str", v)
Int(v) == Scalar("int", v)
Null == Scalar("null", "null")
List(items) == [t |-> "list", items |-> items]
Dict(m) == [t |-> "dict", m |-> m]
EmptyDict == Dict(<<>>)

\* What a lookup finds where the document holds nothing.
Absent == [t |-> "absent"]
\* values.yaml cannot be opened.
Missing == [t |-> "missing"]

\* Keys of the documents.
k_image == <<"i", "m", "a", "g", "e">>
k_repository == <<"r", "e", "p", "o", "s", "i", "t", "o", "r", "y">>
k_tag == <<"t", "a", "g">>
k_environments == <<"e", "n", "v", "i", "r", "o", "n", "m", "e", "n", "t", "s">>
k_servers == <<"s", "e", "r", "v", "e", "r", "s">>
k_servers0 == k_servers \o <<"[", "0", "]">>

\* f"{current_path}.{key}" if current_path else key
FieldPath(current_path, key) ==
    IF current_path # <<>> THEN current_path \o <<".">> \o key ELSE key

\* The mappings that give some of the keys of `choices` one of the values
\* allowed for that key.
DictsOf(choices) ==
    LET all == UNION {choices[k] : k \in DOMAIN choices}
    IN  {f \in UNION {[S -> all] : S \in SUBSET (DOMAIN choices)} :
            \A k \in DOMAIN f : f[k] \in choices[k]}

RECURSIVE Lookup(_, _)
\* The value a document holds under a sequence of keys, through mappings only.
Lookup(tree, keys) ==
    IF keys = <<>> THEN tree
    ELSE IF tree.t = "dict" /\ Head(keys) \in DOMAIN tree.m
         THEN Lookup(tree.m[Head(keys)], Tail(keys))
         ELSE Absent

RECURSIVE SplitDots(_)
\* path.split('.')
SplitDots(path) ==
    IF \A i \in 1..Len(path) : path[i] # "." THEN <<path>>
    ELSE LET d == CHOOSE i \in 1..Len(path) :
                      path[i] = "." /\ \A j \in 1..(i - 1) : path[j] # "."
         IN  <<SubSeq(path, 1, d - 1)>> \o SplitDots(SubSeq(path, d + 1, Len(path)))

\* The value a document holds at a dotted field path.
ValueAt(tree, path) == Lookup(tree, SplitDots(path))

RECURSIVE KeyPaths(_)
\* Every key path of a document: the sequences of keys that lead to a value.
KeyPaths(tree) ==
    IF tree.t # "dict" THEN {}
    ELSE UNION {{<<k>>} \cup {<<k>> \o p : p \in KeyPaths(tree.m[k])} :
                k \in DOMAIN tree.m}

RECURSIVE JoinKeys(_)
\* The accumulated field path of a key path.
JoinKeys(keys) ==
    IF Len(keys) = 1 THEN keys[1]
    ELSE FieldPath(JoinKeys(SubSeq(keys, 1, Len(keys) - 1)), keys[Len(keys)])

LoadedOrEmpty_null_kept(doc) == doc

\* The documents Python takes as false: an empty file or null, {}, [], 0,
\* 0.0, false and the empty string.
FalsyDocuments ==
    {Null, EmptyDict, List(<<>>), Int("0"), Scalar("float", "0.0"),
     Scalar("bool", "false"), Str("")}

\* yaml.safe_load(file) or {}: a document that is false is taken as {}.
LoadedOrEmpty(doc) == IF doc \in FalsyDocuments THEN EmptyDict ELSE doc

-----------------------------------------------------------------------------
(* The descriptor: config.yaml and the module globals loaded from it. *)

\* config.get(key, default)
ConfigGet(cfg, key, default) == IF key \in DOMAIN cfg THEN cfg[key] ELSE default

\* The defaults load_config returns when config.yaml is missing or fails to load.
DefaultConfig ==
    [readonly_fields |-> {}, enum_fields |-> {}, field_descriptions |-> <<>>,
     sections |-> <<>>, ui_config |-> <<>>]

\* A YAML document that is a non-empty list or a scalar that is not false:
\* it has no get().
NotAMapping == [not_a_mapping |-> TRUE]
IsMapping(cfg) == "not_a_mapping" \notin DOMAIN cfg

\* A config.yaml document Python takes as false: an empty file or null, {},
\* [], 0, false or the empty string.
FalsyConfig == [falsy |-> TRUE]
\* {}: the mapping without a key.
EmptyConfig == [key \in {} |-> {}]

\* config.yaml holding the document `doc`.
ConfigOk(doc) == [state |-> "ok", doc |-> doc]
\* config.yaml that is missing, unreadable or not YAML.
ConfigBroken(state) == [state |-> state, doc |-> <<>>]

\* load_config(): yaml.safe_load(file) or {} when the file is there and loads,
\* the defaults otherwise.
load_config(source) ==
    IF source.state = "ok"
    THEN IF source.doc = FalsyConfig THEN EmptyConfig ELSE source.doc
    ELSE DefaultConfig

\* Lines 60-66: the globals as the module sets them when it is imported.
Startup(source) ==
    /\ config_file = source
    /\ config = load_config(source)
    /\ readonly_fields = ConfigGet(config, "readonly_fields", {})
    /\ enum_fields = ConfigGet(config, "enum_fields", {})
    /\ field_titles = ConfigGet(config, "field_titles", <<>>)
    /\ field_descriptions = ConfigGet(config, "field_descriptions", <<>>)
    /\ sections_config = ConfigGet(config, "sections", <<>>)
    /\ ui_config = ConfigGet(config, "ui_config", <<>>)

NoCall == [op |-> "none", status |-> 0, pre |-> Absent, data |-> Absent,
           response |-> Absent]
\* A reload_config thread: where it is, how config.yaml was when it loaded it,
\* and the read-only set it found in place.
ReloadIdle == [pc |-> "idle", source |-> "none", before |-> {}]
\* A get_schema thread in create_json_schema: where it is, what each load of a
\* global found (ui_config, sections_config and field_titles are loaded once
\* for the test and once more for the use: ui_metadata, sections, title_from),
\* the title it gave the field, and its answer.
NotRead == <<"not read">>
ReaderIdle ==
    [pc |-> "idle", ui_config |-> NotRead, ui_metadata |-> NotRead,
     sections_config |-> NotRead, sections |-> NotRead,
     enum_fields |-> NotRead, field_titles |-> NotRead, title_from |-> NotRead,
     title |-> NotRead, readonly_fields |-> NotRead,
     field_descriptions |-> NotRead, status |-> 0, detail |-> <<>>]
NormIdle == [pc |-> "idle", path |-> <<>>, once |-> <<>>, twice |-> <<>>]

-----------------------------------------------------------------------------
(* git_helper.py: the values document mirrored to and from a git remote.   *)
(* The clone is the committed document (head), the document of the remote  *)
(* branch (remote), the values file of the working tree (worktree),        *)
(* whether other files of the working tree are untracked or modified, and  *)
(* whether the local branch holds commits the remote lacks (ahead) and the *)
(* remote branch commits the local one lacks (behind).                     *)

\* GitHelper({}): git_config is absent, every setting has its default.
GitDisabled ==
    [enabled |-> FALSE, repo_url |-> "", auto_push_on_update |-> TRUE, repo |-> "None"]
NoRepo ==
    [head |-> Absent, remote |-> Absent, worktree |-> Absent, untracked |-> FALSE,
     ahead |-> FALSE, behind |-> FALSE]
\* VALUES_FILE as main.py defines it, on a disk that can be written.
LocalDisk == [VALUES_FILE |-> "../values.yaml", writable |-> TRUE]
\* git_result = None
NoGitResult == [t |-> "None"]
NoUpdaters == <<>>

\* Requests that run with git integration disabled.
NoSync ==
    /\ git_helper = GitDisabled
    /\ repo = NoRepo
    /\ disk = LocalDisk
    /\ trace = <<>>
    /\ snapshot = NoRepo

\* What the git library does during one call of the helper: every call of it
\* works, or the named call raises.
PullFates == {"ok", "pull raises GitCommandError", "pull raises"}
PushFates == {"ok", "is_dirty raises", "is_dirty raises GitCommandError",
              "add raises", "add raises GitCommandError", "commit raises",
              "commit raises GitCommandError", "push raises",
              "push raises GitCommandError"}
InitFates == {"ok", "clone raises", "checkout raises"}

\* GitHelper.is_enabled
is_enabled == git_helper.enabled /\ git_helper.repo_url # ""

\* init_repository: self.repo once it has returned.  A checkout that raises
\* leaves self.repo set although False is returned.
init_repository(settings, fate) ==
    IF ~(settings.enabled /\ settings.repo_url # "") THEN "None"
    ELSE IF fate = "clone raises" THEN "None"
    ELSE "Repo"

\* Lines 73-86: VALUES_FILE once the module is imported.
values_file_at_startup(settings, fate) ==
    IF settings.enabled /\ settings.repo_url # "" /\ fate = "ok"
    THEN "git-repo/values.yaml" ELSE "../values.yaml"

VALUES_FILE_in_clone == disk.VALUES_FILE = "git-repo/values.yaml"

is_dirty_always(clone) == TRUE

\* self.repo.is_dirty(untracked_files=True)
is_dirty(clone) == clone.worktree # clone.head \/ clone.untracked

Failure(message) == [success |-> FALSE, message |-> message]
Success(message) == [success |-> TRUE, message |-> message]
SuccessAt(message, commit) == [success |-> TRUE, message |-> message, commit |-> commit]

\* GitHelper.pull: its result, the library calls it made, and the clone after
\* it.  With nothing to fetch git answers that the branch is up to date; it
\* refuses to reconcile a branch that has diverged from the remote one, and
\* to fast-forward over a values file that is modified; a values file that
\* was deleted is written again when the remote commits change it.
pull(clone, fate) ==
    IF git_helper.repo = "None"
    THEN [result |-> Failure("Repository not initialized"), steps |-> <<>>,
          repo |-> clone]
    ELSE IF fate = "pull raises"
    THEN [result |-> Failure("Pull failed"), steps |-> <<"origin.pull raised">>,
          repo |-> clone]
    ELSE IF fate = "pull raises GitCommandError"
    THEN [result |-> Failure("Git pull failed"), steps |-> <<"origin.pull raised">>,
          repo |-> clone]
    ELSE IF ~clone.behind
    THEN [result |-> SuccessAt("Successfully pulled latest changes", clone.head),
          steps |-> <<"origin.pull">>, repo |-> clone]
    ELSE IF \/ clone.ahead
            \/ /\ clone.remote # clone.head
               /\ clone.worktree \notin {clone.head, Missing}
    THEN [result |-> Failure("Git pull failed"), steps |-> <<"origin.pull raised">>,
          repo |-> clone]
    ELSE [result |-> SuccessAt("Successfully pulled latest changes", clone.remote),
          steps |-> <<"origin.pull">>,
          repo |-> [clone EXCEPT !.head = clone.remote,
                                 !.behind = FALSE,
                                 !.worktree = IF clone.remote # clone.head
                                              THEN clone.remote ELSE @]]

\* GitHelper.commit_and_push: its result, the library calls it made, and the
\* clone after it.  A values file that is missing cannot be staged.  A push
\* the remote rejects, its branch holding commits the local one lacks, does
\* not raise: origin.push returns and its answer is not looked at.
commit_and_push(clone, fate) ==
    IF git_helper.repo = "None"
    THEN [result |-> Failure("Repository not initialized"), steps |-> <<>>,
          repo |-> clone]
    ELSE IF fate = "is_dirty raises"
    THEN [result |-> Failure("Commit/push failed"), steps |-> <<"is_dirty raised">>,
          repo |-> clone]
    ELSE IF fate = "is_dirty raises GitCommandError"
    THEN [result |-> Failure("Git operation failed"),
          steps |-> <<"is_dirty raised">>, repo |-> clone]
    ELSE IF ~is_dirty(clone)
    THEN [result |-> Success("No changes to commit"), steps |-> <<"is_dirty">>,
          repo |-> clone]
    ELSE IF fate = "add raises GitCommandError"
    THEN [result |-> Failure("Git operation failed"),
          steps |-> <<"is_dirty", "index.add raised">>, repo |-> clone]
    ELSE IF fate = "add raises" \/ clone.worktree = Missing
    THEN [result |-> Failure("Commit/push failed"),
          steps |-> <<"is_dirty", "index.add raised">>, repo |-> clone]
    ELSE IF fate = "commit raises"
    THEN [result |-> Failure("Commit/push failed"),
          steps |-> <<"is_dirty", "index.add", "index.commit raised">>,
          repo |-> clone]
    ELSE IF fate = "commit raises GitCommandError"
    THEN [result |-> Failure("Git operation failed"),
          steps |-> <<"is_dirty", "index.add", "index.commit raised">>,
          repo |-> clone]
    ELSE LET committed == [clone EXCEPT !.head = clone.worktree, !.ahead = TRUE]
             done == <<"is_dirty", "index.add", "index.commit">>
         IN  IF ~git_helper.auto_push_on_update
             THEN [result |-> SuccessAt("Changes committed locally (auto-push disabled)",
                                        committed.head),
                   steps |-> done, repo |-> committed]
             ELSE IF fate = "push raises GitCommandError"
             THEN [result |-> Failure("Git push failed"),
                   steps |-> done \o <<"origin.push raised">>, repo |-> committed]
             ELSE IF fate = "push raises"
             THEN [result |-> Failure("Push failed"),
                   steps |-> done \o <<"origin.push raised">>, repo |-> committed]
             ELSE [result |-> SuccessAt("Changes committed and pushed", committed.head),
                   steps |-> done \o <<"origin.push">>,
                   repo |-> IF committed.behind THEN committed
                            ELSE [committed EXCEPT !.remote = committed.head,
                                                   !.ahead = FALSE]]

\* GitHelper.sync_values_file(source_path): what it returns and the clone
\* after it.  copy2 raises when the source file is missing and when the target,
\* the values file of the clone, may not be written.
sync_values_file(clone, source) ==
    IF git_helper.repo = "None" THEN [result |-> FALSE, repo |-> clone]
    ELSE IF source = Missing THEN [result |-> FALSE, repo |-> clone]
    ELSE IF VALUES_FILE_in_clone /\ ~disk.writable
    THEN [result |-> FALSE, repo |-> clone]
    ELSE [result |-> TRUE, repo |-> [clone EXCEPT !.worktree = source]]

\* No helper call: git integration is disabled.
NotSynced(clone) == [result |-> NoGitResult, steps |-> <<>>, repo |-> clone]

-----------------------------------------------------------------------------
(* update_values: the selective merge. *)

\* is_protected_field: the accumulated path itself is looked up.
is_protected_field(field_path) == field_path \in readonly_fields

both_dicts_never(current, key, value) == FALSE

\* Line 316: both the current value and the update value are mappings.
both_dicts(current, key, value) ==
    key \in DOMAIN current /\ current[key].t = "dict" /\ value.t = "dict"

\* Line 319: the key itself is looked up in enum_fields.
is_enum_skip(current, key) ==
    key \in enum_fields /\ key \in DOMAIN current /\ current[key].t = "list"

RECURSIVE update_nested_dict(_, _, _)
\* update_nested_dict(current, updates, current_path): the mapping `current`
\* holds once every entry of `updates` has been handled.  The entries have
\* distinct keys, so the order of the loop does not show in the result.
update_nested_dict(current, updates, current_path) ==
    LET handled == {key \in DOMAIN updates :
                       ~is_protected_field(FieldPath(current_path, key))}
    IN  [key \in (DOMAIN current) \cup handled |->
            IF key \notin handled THEN current[key]
            ELSE LET value == updates[key]
                 IN  IF both_dicts(current, key, value)
                     THEN Dict(update_nested_dict(current[key].m, value.m,
                                                  FieldPath(current_path, key)))
                     ELSE IF is_enum_skip(current, key) THEN current[key]
                     ELSE value]

RECURSIVE AccumulatedPaths(_, _, _)
\* Every field_path update_nested_dict builds while it handles `updates`.
AccumulatedPaths(current, updates, current_path) ==
    UNION {{FieldPath(current_path, key)} \cup
           (IF /\ ~is_protected_field(FieldPath(current_path, key))
               /\ both_dicts(current, key, updates[key])
            THEN AccumulatedPaths(current[key].m, updates[key].m,
                                  FieldPath(current_path, key))
            ELSE {}) : key \in DOMAIN updates}

update_response_gated(git_result) ==
    IF git_result = NoGitResult \/ git_result.success
    THEN Dict([message |-> Str("Updated successfully")])
    ELSE Dict([message |-> Str(git_result.message)])

\* Lines 343-345: the body of the answer to an update.
update_response(git_result) ==
    IF git_result = NoGitResult
    THEN Dict([message |-> Str("Updated successfully")])
    ELSE Dict([message |-> Str("Updated successfully"), git |-> git_result])

\* POST /update with the body `data`: the file is read, merged and written,
\* and with git integration enabled the helper commits and pushes.
update_values(data) ==
    /\ \E fate \in PushFates :
        IF values_file = Missing
        THEN /\ call' = [op |-> "update", status |-> 500, pre |-> values_file,
                         data |-> data, response |-> Str("No such file or directory")]
             /\ trace' = <<"read raised">>
             /\ UNCHANGED << values_file, repo >>
        ELSE LET current_values == LoadedOrEmpty(values_file)
                 merged == Dict(update_nested_dict(current_values.m, data.m, <<>>))
                 written == IF VALUES_FILE_in_clone
                            THEN [repo EXCEPT !.worktree = merged] ELSE repo
                 synced == IF is_enabled THEN commit_and_push(written, fate)
                           ELSE NotSynced(written)
             IN  IF ~disk.writable
                 THEN /\ call' = [op |-> "update", status |-> 500,
                                  pre |-> current_values, data |-> data,
                                  response |-> Str("Permission denied")]
                      /\ trace' = <<"read", "write raised">>
                      /\ UNCHANGED << values_file, repo >>
                 ELSE /\ values_file' = merged
                      /\ repo' = synced.repo
                      /\ trace' = <<"read", "write">> \o
                                  (IF is_enabled
                                   THEN <<"commit_and_push">> \o synced.steps
                                   ELSE <<>>)
                      /\ call' = [op |-> "update", status |-> 200,
                                  pre |-> current_values, data |-> data,
                                  response |-> update_response(synced.result)]
    /\ snapshot' = repo
    /\ UNCHANGED << git_helper, disk, updaters, norm, config_file, globals, reload,
                    reader >>

-----------------------------------------------------------------------------
(* create_json_schema: the schema synthesised from a values document. *)

Lowercase == <<"a", "b", "c", "d", "e", "f", "g", "h", "i", "j", "k", "l", "m",
               "n", "o", "p", "q", "r", "s", "t", "u", "v", "w", "x", "y", "z">>
Uppercase == <<"A", "B", "C", "D", "E", "F", "G", "H", "I", "J", "K", "L", "M",
               "N", "O", "P", "Q", "R", "S", "T", "U", "V", "W", "X", "Y", "Z">>

IsLower(c) == \E i \in 1..Len(Lowercase) : Lowercase[i] = c
IsUpper(c) == \E i \in 1..Len(Uppercase) : Uppercase[i] = c
ToUpper(c) ==
    IF IsLower(c) THEN Uppercase[CHOOSE i \in 1..Len(Lowercase) : Lowercase[i] = c]
    ELSE c
ToLower(c) ==
    IF IsUpper(c) THEN Lowercase[CHOOSE i \in 1..Len(Uppercase) : Uppercase[i] = c]
    ELSE c

RECURSIVE SpaceCamelCase(_, _)
\* re.sub(r'([a-z])([A-Z])', r'\1 \2', s) from position i on.
SpaceCamelCase(s, i) ==
    IF i > Len(s) THEN <<>>
    ELSE IF i < Len(s) /\ IsLower(s[i]) /\ IsUpper(s[i + 1])
         THEN <<s[i], " ">> \o SpaceCamelCase(s, i + 1)
         ELSE <<s[i]>> \o SpaceCamelCase(s, i + 1)

\* s.replace('_', ' ')
ReplaceUnderscores(s) == [i \in 1..Len(s) |-> IF s[i] = "_" THEN " " ELSE s[i]]

\* s.title(): a letter that follows a letter is lowered, any other letter is
\* raised, and the rest is kept.
TitleCase(s) ==
    [i \in 1..Len(s) |->
        IF i > 1 /\ (IsLower(s[i - 1]) \/ IsUpper(s[i - 1]))
        THEN ToLower(s[i]) ELSE ToUpper(s[i])]

RECURSIVE RStripS(_)
\* s.rstrip('s'): every trailing "s" is removed.
RStripS(s) ==
    IF s # <<>> /\ s[Len(s)] = "s" THEN RStripS(SubSeq(s, 1, Len(s) - 1)) ELSE s

is_readonly(path) == normalize_path(path) \in readonly_fields

is_enum(path) == normalize_path(path) \in enum_fields

\* get_description: the configured description; None is given as the empty
\* string, which `if description:` treats alike.
get_description(path) ==
    IF normalize_path(path) \in DOMAIN field_descriptions
    THEN field_descriptions[normalize_path(path)] ELSE <<>>

get_title_from_path(path) ==
    LET parts == SplitDots(path)
        last_part == parts[Len(parts)]
        clean_part == ReSubIndex(last_part, 1)
        spaced == ReplaceUnderscores(SpaceCamelCase(clean_part, 1))
    IN  TitleCase(spaced)

get_title(path) ==
    IF normalize_path(path) \in DOMAIN field_titles
    THEN field_titles[normalize_path(path)]
    ELSE get_title_from_path(path)

\* get_type_schema: bool before int; whatever is no bool, int or float is a string.
get_type_schema(value) ==
    IF value.t = "scalar" /\ value.kind = "bool" THEN [type |-> "boolean"]
    ELSE IF value.t = "scalar" /\ value.kind = "int" THEN [type |-> "integer"]
    ELSE IF value.t = "scalar" /\ value.kind = "float" THEN [type |-> "number"]
    ELSE [type |-> "string"]

\* Line 186: an enum path whose list does not start with a mapping.
is_enum_list(value, field_path) ==
    is_enum(field_path) /\ value.items[1].t # "dict"

\* Lines 202-208: the title of the item schema of an array of objects.
item_title(field_path) ==
    LET index_path == field_path \o <<"[", "0", "]">>
    IN  IF get_title(index_path) = get_title_from_path(index_path)
        THEN LET auto_title == RStripS(get_title(field_path))
             IN  IF auto_title = get_title(field_path)
                 THEN auto_title \o <<" ", "I", "t", "e", "m">>
                 ELSE auto_title
        ELSE get_title(index_path)

RECURSIVE process_value(_, _)
RECURSIVE process_object(_, _)

process_value(value, field_path) ==
    IF value.t = "dict"
    THEN [type |-> "object", properties |-> process_object(value.m, field_path),
          title |-> get_title(field_path)]
    ELSE IF value.t = "list"
    THEN IF value.items = <<>>
         THEN [type |-> "array", items |-> [type |-> "string"],
               title |-> get_title(field_path)]
         ELSE IF is_enum_list(value, field_path)
         THEN [type |-> "array", items |-> [type |-> "string"], uniqueItems |-> TRUE,
               default |-> value.items, enum_values |-> value.items,
               title |-> get_title(field_path)]
         ELSE IF value.items[1].t = "dict"
         THEN LET item_schema ==
                      process_value(value.items[1], field_path \o <<"[", "0", "]">>)
              IN  [type |-> "array",
                   items |-> [item_schema EXCEPT !.title = item_title(field_path)],
                   title |-> get_title(field_path)]
         ELSE [type |-> "array", items |-> get_type_schema(value.items[1]),
               title |-> get_title(field_path)]
    ELSE ("title" :> get_title(field_path)) @@ get_type_schema(value)

process_object(obj, current_path) ==
    [key \in DOMAIN obj |->
        LET field_path == FieldPath(current_path, key)
            prop_schema == process_value(obj[key], field_path)
            with_readonly == IF is_readonly(field_path)
                             THEN ("readOnly" :> TRUE) @@ prop_schema
                             ELSE prop_schema
            description == get_description(field_path)
        IN  IF description # <<>>
            THEN ("description" :> description) @@ with_readonly
            ELSE with_readonly]

\* create_json_schema(yaml_data), yaml_data a mapping.
create_json_schema(yaml_data) ==
    LET schema == [type |-> "object", properties |-> process_object(yaml_data.m, <<>>),
                   required |-> <<>>]
        with_ui == IF ui_config # <<>>
                   THEN ("ui_metadata" :> ui_config) @@ schema ELSE schema
    IN  IF sections_config # <<>>
        THEN ("sections" :> sections_config) @@ with_ui ELSE with_ui

\* GET /schema: with git integration enabled the helper pulls, then the file
\* is read.  A document that is no mapping has no items(): the AttributeError
\* is answered with status 500.
get_schema ==
    /\ \E fate \in PullFates :
        LET pulled == IF is_enabled THEN pull(repo, fate) ELSE NotSynced(repo)
            file == IF VALUES_FILE_in_clone THEN pulled.repo.worktree ELSE values_file
            pulling == IF is_enabled THEN <<"pull">> \o pulled.steps ELSE <<>>
        IN  /\ repo' = pulled.repo
            /\ values_file' = file
            /\ IF file = Missing
               THEN /\ call' = [op |-> "schema", status |-> 500, pre |-> file,
                                data |-> Absent,
                                response |-> Str("No such file or directory")]
                    /\ trace' = pulling \o <<"read raised">>
               ELSE LET values == LoadedOrEmpty(file)
                    IN  /\ trace' = pulling \o <<"read">>
                        /\ IF values.t = "dict"
                           THEN call' = [op |-> "schema", status |-> 200,
                                         pre |-> values, data |-> Absent,
                                         response |-> create_json_schema(values)]
                           ELSE call' = [op |-> "schema", status |-> 500,
                                         pre |-> values, data |-> Absent,
                                         response |->
                                             Str("object has no attribute 'items'")]
    /\ snapshot' = repo
    /\ UNCHANGED << git_helper, disk, updaters, norm, config_file, globals, reload,
                    reader >>

\* GET /values: the file is read and returned; the helper is not called.
get_values ==
    /\ IF values_file = Missing
       THEN /\ call' = [op |-> "values", status |-> 500, pre |-> values_file,
                        data |-> Absent, response |-> Str("No such file or directory")]
            /\ trace' = <<"read raised">>
       ELSE /\ call' = [op |-> "values", status |-> 200,
                        pre |-> LoadedOrEmpty(values_file), data |-> Absent,
                        response |-> LoadedOrEmpty(values_file)]
            /\ trace' = <<"read">>
    /\ snapshot' = repo
    /\ UNCHANGED << git_helper, repo, disk, values_file, updaters, norm, config_file,
                    globals, reload, reader >>

\* POST /git/pull
git_pull ==
    /\ \E fate \in PullFates :
        IF ~is_enabled
        THEN /\ call' = [op |-> "git_pull", status |-> 400, pre |-> Absent,
                         data |-> Absent,
                         response |-> Str("Git integration is not enabled")]
             /\ trace' = <<>>
             /\ UNCHANGED << repo, values_file >>
        ELSE LET pulled == pull(repo, fate)
             IN  /\ call' = [op |-> "git_pull", status |-> 200, pre |-> Absent,
                             data |-> Absent, response |-> pulled.result]
                 /\ trace' = <<"pull">> \o pulled.steps
                 /\ repo' = pulled.repo
                 /\ values_file' = IF VALUES_FILE_in_clone
                                   THEN pulled.repo.worktree ELSE values_file
    /\ snapshot' = repo
    /\ UNCHANGED << git_helper, disk, updaters, norm, config_file, globals, reload,
                    reader >>

\* POST /git/push
git_push ==
    /\ \E fate \in PushFates :
        IF ~is_enabled
        THEN /\ call' = [op |-> "git_push", status |-> 400, pre |-> Absent,
                         data |-> Absent,
                         response |-> Str("Git integration is not enabled")]
             /\ trace' = <<>>
             /\ UNCHANGED repo
        ELSE LET synced == commit_and_push(repo, fate)
             IN  /\ call' = [op |-> "git_push", status |-> 200, pre |-> Absent,
                             data |-> Absent, response |-> synced.result]
                 /\ trace' = <<"commit_and_push">> \o synced.steps
                 /\ repo' = synced.repo
    /\ snapshot' = repo
    /\ UNCHANGED << git_helper, disk, values_file, updaters, norm, config_file,
                    globals, reload, reader >>

\* git_helper.sync_values_file(source_path) called on the helper itself; no
\* request handler of main.py calls it.
SyncValuesFile(source) ==
    /\ LET synced == sync_values_file(repo, source)
       IN  /\ call' = [op |-> "sync_values_file", status |-> 0, pre |-> Absent,
                       data |-> source, response |-> [returned |-> synced.result]]
           /\ repo' = synced.repo
           /\ values_file' = IF VALUES_FILE_in_clone
                             THEN synced.repo.worktree ELSE values_file
    /\ trace' = <<"sync_values_file">>
    /\ snapshot' = repo
    /\ UNCHANGED << git_helper, disk, updaters, norm, config_file, globals, reload,
                    reader >>

-----------------------------------------------------------------------------
(* The merge on its own: one update request against every values document  *)
(* and descriptor of a bounded family.                                     *)

p_image_repository == FieldPath(k_image, k_repository)
p_image_tag == FieldPath(k_image, k_tag)

EnvList == List(<<Str("dev"), Str("staging"), Str("prod")>>)
OtherList == List(<<Str("qa")>>)

\* values.yaml before the request: what each key may hold.
CurrentImages ==
    {Dict(m) : m \in DictsOf((k_repository :> {Str("nginx")}) @@
                             (k_tag :> {Str("1.0"), EnvList}))}
CurrentDocs ==
    {Dict(m) : m \in DictsOf((k_image :> ({Str("nginx")} \cup CurrentImages)) @@
                             (k_environments :> {Str("dev"), EnvList}) @@
                             (k_servers0 :> {Str("a")}))}

\* The update documents: the same shapes, holding other values.
UpdateImages ==
    {Dict(m) : m \in DictsOf((k_repository :> {Str("custom")}) @@
                             (k_tag :> {Str("2.0"), OtherList}))}
UpdateDocs ==
    {Dict(m) : m \in DictsOf((k_image :> ({Str("custom")} \cup UpdateImages)) @@
                             (k_environments :> {Str("qa"), OtherList}) @@
                             (k_servers0 :> {Str("b")}))}

\* The descriptors of the merge: read-only and enum rule sets.
MergeConfigs ==
    {[readonly_fields |-> r, enum_fields |-> e] :
        r \in {{}, {p_image_repository}, {k_servers}, {k_image}},
        e \in {{}, {k_environments}, {p_image_tag}}}

InitMerge ==
    /\ norm = NormIdle
    /\ \E doc \in MergeConfigs : Startup(ConfigOk(doc))
    /\ values_file \in CurrentDocs \cup {Null, Scalar("bool", "false"), Missing}
    /\ call = NoCall
    /\ reload = ReloadIdle
    /\ reader = ReaderIdle
    /\ NoSync
    /\ updaters = NoUpdaters

NextMerge == call.op = "none" /\ \E data \in UpdateDocs : update_values(data)

SpecMerge == InitMerge /\ [][NextMerge]_vars

\* An update request has been merged and written back.
Merged == call.op = "update" /\ call.status = 200

\* C1 (as claimed): after a merge, every read-only path holds the value it
\* held before, whatever the update holds at the path or at an ancestor of it.
C1_ReadOnlyNeverWritten ==
    Merged => \A p \in readonly_fields :
                  ValueAt(values_file, p) = ValueAt(call.pre, p)

\* C2 (as claimed): after a merge, every enum path at which the document held
\* a sequence, at any depth, still holds the identical sequence.
C2_EnumSequenceNeverReplaced ==
    Merged => \A p \in enum_fields :
                  ValueAt(call.pre, p).t = "list"
                      => ValueAt(values_file, p) = ValueAt(call.pre, p)

\* A key path of the document that the update does not hold.
Untouched(keys) == Lookup(call.pre, keys) # Absent /\ Lookup(call.data, keys) = Absent

\* The update holds a non-mapping value at a proper prefix of the key path,
\* and the merge does not skip that entry: neither its path nor a path above it
\* is read-only.
ReplacedAbove(keys) ==
    \E n \in 1..(Len(keys) - 1) :
        /\ Lookup(call.data, SubSeq(keys, 1, n)).t \notin {"absent", "dict"}
        /\ \A i \in 1..n : JoinKeys(SubSeq(keys, 1, i)) \notin readonly_fields

\* C3 (as claimed): after a merge, every key path of the document that the
\* update does not hold is still there with the identical value, also below a
\* key for which the update supplies a non-mapping value.
C3_UntouchedKeysPreserved ==
    Merged => \A keys \in KeyPaths(call.pre) :
                  Untouched(keys)
                      => Lookup(values_file, keys) = Lookup(call.pre, keys)

\* C3 (amended): after a merge, every key path of the document that the update
\* does not hold is still there with the identical value, except below a key
\* for which the update supplies a non-mapping value and whose entry is not
\* skipped as read-only: that key's value is replaced whole and the key paths
\* below it are gone.
C3_UntouchedKeysPreservedUnlessReplacedAbove ==
    Merged => \A keys \in KeyPaths(call.pre) :
                  Untouched(keys)
                      => IF ReplacedAbove(keys)
                         THEN Lookup(values_file, keys) = Absent
                         ELSE Lookup(values_file, keys) = Lookup(call.pre, keys)

\* C3 witness: a merge went into a mapping that holds a key the update does not
\* name, beside a key the update overwrote.
C3_Witness ==
    /\ Merged
    /\ Untouched(<<k_image, k_repository>>)
    /\ Lookup(call.data, <<k_image, k_tag>>) = Str("2.0")
    /\ Lookup(values_file, <<k_image, k_tag>>) = Str("2.0")
    /\ Lookup(call.pre, <<k_image, k_tag>>) = Str("1.0")
    /\ Lookup(values_file, <<k_image, k_repository>>) = Str("nginx")

\* C5 (as claimed): the merge decides on the normalized form of every
\* accumulated path: the skip decision for a path is the decision for its
\* normalized form, and an entry whose normalized path is read-only is left
\* as it was.
C5_MergeLooksUpNormalizedPath ==
    Merged => \A q \in AccumulatedPaths(call.pre.m, call.data.m, <<>>) :
                  /\ is_protected_field(q) = is_protected_field(normalize_path(q))
                  /\ normalize_path(q) \in readonly_fields
                         => ValueAt(values_file, q) = ValueAt(call.pre, q)

\* The entries of the update's mapping at `keys`, as key paths.
EntriesAt(keys) == {Append(keys, k) : k \in DOMAIN Lookup(call.data, keys).m}

\* The entry at this key path is for a read-only path.
ReadOnlyEntry(entry) == normalize_path(JoinKeys(entry)) \in readonly_fields

\* The entry at this key path is for a path that is neither read-only nor an
\* enum path.
Unprotected(entry) ==
    normalize_path(JoinKeys(entry)) \notin readonly_fields \cup enum_fields

ScenarioCurrent ==
    Dict(k_image :> Dict((k_repository :> Str("nginx")) @@ (k_tag :> Str("1.0"))))
ScenarioUpdate ==
    Dict(k_image :> Dict((k_repository :> Str("custom")) @@ (k_tag :> Str("2.0"))))
ScenarioMerged ==
    Dict(k_image :> Dict((k_repository :> Str("nginx")) @@ (k_tag :> Str("2.0"))))

\* C6 (as claimed): an update that holds, in one mapping, an entry for a
\* read-only path beside other entries is answered with success; the read-only
\* entry holds what the document held there before, and every unprotected
\* entry that is not a mapping holds the update's value.  The scenario of the
\* specification comes out as given.
C6_ProtectedWriteIsNoOp ==
    (call.op = "update" /\ values_file # Missing) =>
        /\ \A keys \in {<<>>} \cup KeyPaths(call.data) :
               (Lookup(call.data, keys).t = "dict"
                /\ \E e \in EntriesAt(keys) : ReadOnlyEntry(e))
               => /\ call.status = 200
                  /\ call.response = Dict([message |-> Str("Updated successfully")])
                  /\ \A e \in EntriesAt(keys) :
                        /\ ReadOnlyEntry(e)
                               => Lookup(values_file, e) = Lookup(call.pre, e)
                        /\ (Unprotected(e) /\ Lookup(call.data, e).t # "dict")
                               => Lookup(values_file, e) = Lookup(call.data, e)
        /\ (call.pre = ScenarioCurrent /\ call.data = ScenarioUpdate
            /\ readonly_fields = {p_image_repository})
               => values_file = ScenarioMerged

-----------------------------------------------------------------------------
(* Schema synthesis on its own: one schema request against every values    *)
(* document and descriptor of a bounded family.                             *)

k_name == <<"n", "a", "m", "e">>
k_port == <<"p", "o", "r", "t">>
p_image_environments == FieldPath(k_image, k_environments)

\* Lists that start with a sequence and with a mapping.
NestedFirstList == List(<<List(<<Str("dev")>>), Str("prod")>>)
DictFirstList == List(<<Dict(k_name :> Str("dev")), Str("prod")>>)
ServerList == List(<<Dict((k_name :> Str("a")) @@ (k_port :> Int("80")))>>)

SchemaDocs ==
    {Dict(m) : m \in DictsOf(
        (k_image :> {Dict((k_repository :> Str("nginx")) @@ (k_tag :> Str("1.0"))),
                     Dict(k_environments :> EnvList),
                     Dict(k_environments :> NestedFirstList)}) @@
        (k_environments :> {EnvList, List(<<>>), NestedFirstList, DictFirstList,
                            List(<<Int("1"), Int("2")>>), Str("dev")}) @@
        (k_servers :> {ServerList}))}

t_Hosts == <<"H", "o", "s", "t", "s">>
t_Tag == <<"T", "h", "e", " ", "t", "a", "g">>

SchemaConfigs ==
    {[readonly_fields |-> r, enum_fields |-> e, field_titles |-> t,
      field_descriptions |-> d, sections |-> s, ui_config |-> u] :
        r \in {{}, {p_image_repository}},
        e \in SUBSET {k_environments, p_image_environments, k_servers},
        t \in {<<>>, k_servers :> t_Hosts},
        d \in {<<>>, p_image_tag :> t_Tag},
        s \in {<<>>, <<"General">>},
        u \in {<<>>, [theme |-> "dark"]}}

InitSchema ==
    /\ norm = NormIdle
    /\ \E doc \in SchemaConfigs : Startup(ConfigOk(doc))
    /\ values_file \in SchemaDocs \cup {Null, List(<<>>), Int("0"),
                                         List(<<Str("dev")>>), Missing}
    /\ call = NoCall
    /\ reload = ReloadIdle
    /\ reader = ReaderIdle
    /\ NoSync
    /\ updaters = NoUpdaters

NextSchema == call.op = "none" /\ get_schema

SpecSchema == InitSchema /\ [][NextSchema]_vars

RECURSIVE SchemaAt(_, _)
\* The schema node of the value under a sequence of keys.
SchemaAt(schema, keys) ==
    IF keys = <<>> THEN schema
    ELSE SchemaAt(schema.properties[Head(keys)], Tail(keys))

\* C9 (as claimed): a non-empty sequence at an enum path is synthesised as an
\* enumeration array (string items, uniqueItems, default and option list the
\* full element list) if its first element is a scalar, and by normal array
\* inference, with no enumeration members, if its first element is a mapping
\* or a sequence.
C9_EnumArrayIffFirstScalar ==
    (call.op = "schema" /\ call.status = 200) =>
        \A keys \in KeyPaths(call.pre) :
            LET value == Lookup(call.pre, keys)
                node == SchemaAt(call.response, keys)
            IN  (value.t = "list" /\ value.items # <<>> /\ is_enum(JoinKeys(keys)))
                => IF value.items[1].t = "scalar"
                   THEN /\ node.type = "array"
                        /\ node.items = [type |-> "string"]
                        /\ "uniqueItems" \in DOMAIN node /\ node.uniqueItems = TRUE
                        /\ node.default = value.items
                        /\ node.enum_values = value.items
                   ELSE /\ node.type = "array"
                        /\ DOMAIN node = {"type", "items", "title"}
                        /\ node.items.type =
                               (IF value.items[1].t = "dict" THEN "object" ELSE "string")

\* The values document is empty or null, and the descriptor holds no sections
\* and no UI hints.
EmptyTreeRequest ==
    /\ call.op = "schema"
    /\ values_file \in {EmptyDict, Null}
    /\ sections_config = <<>>
    /\ ui_config = <<>>

\* C10 (as claimed): the schema of an empty or null values document is exactly
\* {"type": "object", "properties": {}}, with no other member, and no error.
C10_EmptyTreeSchemaExact ==
    EmptyTreeRequest =>
        /\ call.status = 200
        /\ call.response = [type |-> "object", properties |-> <<>>]

\* C10 (amended): the schema of an empty or null values document is exactly
\* {"type": "object", "properties": {}, "required": []}, and no error is raised.
C10_EmptyTreeSchemaWithRequired ==
    EmptyTreeRequest =>
        /\ call.status = 200
        /\ call.response = [type |-> "object", properties |-> <<>>, required |-> <<>>]

\* C10 witness: the schema of a null values document has been served.
C10_Witness ==
    /\ EmptyTreeRequest
    /\ values_file = Null
    /\ call.status = 200
    /\ DOMAIN call.response = {"type", "properties", "required"}

-----------------------------------------------------------------------------
(* reload_config, statement by statement, beside a thread that synthesises *)
(* a schema.  FastAPI runs these plain `def` handlers on worker threads, so *)
(* the statements of one interleave with the lookups of the other.  One     *)
(* reload_config call runs at a time.                                       *)

t_Advanced == <<"A", "d", "v", "a", "n", "c", "e", "d">>

DescriptorA ==
    [readonly_fields |-> {p_image_repository}, enum_fields |-> {k_environments},
     field_titles |-> (k_servers :> t_Hosts),
     field_descriptions |-> (p_image_tag :> t_Tag),
     sections |-> <<"General">>, ui_config |-> [theme |-> "dark"]]
DescriptorB ==
    [readonly_fields |-> {k_servers}, enum_fields |-> {p_image_tag},
     field_titles |-> (k_environments :> t_Advanced),
     field_descriptions |-> (k_environments :> t_Advanced),
     sections |-> <<"Advanced">>, ui_config |-> [theme |-> "light"]]

\* config.yaml as the reload may find it.
BrokenStates == {"missing", "unreadable", "unparsable"}
ConfigSources ==
    {ConfigOk(DescriptorA), ConfigOk(DescriptorB), ConfigOk(NotAMapping),
     ConfigOk(FalsyConfig)}
        \cup {ConfigBroken(st) : st \in BrokenStates}

\* config.yaml is edited, removed or damaged on disk.
EditConfigFile ==
    /\ reload.pc = "idle"
    /\ \E source \in ConfigSources : source # config_file /\ config_file' = source
    /\ UNCHANGED << sync_vars, updaters, norm, globals, values_file, call, reload, reader >>

\* Line 371: config = load_config()
ReloadLoad ==
    /\ reload.pc = "idle"
    /\ config' = load_config(config_file)
    /\ reload' = [pc |-> "readonly", source |-> config_file.state,
                  before |-> readonly_fields]
    /\ UNCHANGED << sync_vars, updaters, norm, config_file, readonly_fields, enum_fields, field_titles,
                    field_descriptions, sections_config, ui_config, values_file,
                    call, reader >>

ReloadReadonly_local ==
    /\ reload.pc = "readonly"
    /\ reload' = [reload EXCEPT !.pc = IF IsMapping(config) THEN "enum" ELSE "failed"]
    /\ UNCHANGED << sync_vars, updaters, norm, config_file, globals, values_file, call, reader >>

\* Line 372; a document that is no mapping has no get(): the AttributeError is
\* caught at line 380 and answered with status 500.
ReloadReadonly ==
    /\ reload.pc = "readonly"
    /\ IF IsMapping(config)
       THEN /\ readonly_fields' = ConfigGet(config, "readonly_fields", {})
            /\ reload' = [reload EXCEPT !.pc = "enum"]
       ELSE /\ reload' = [reload EXCEPT !.pc = "failed"]
            /\ UNCHANGED readonly_fields
    /\ UNCHANGED << sync_vars, updaters, norm, config_file, config, enum_fields, field_titles,
                    field_descriptions, sections_config, ui_config, values_file,
                    call, reader >>

\* Line 373
ReloadEnum ==
    /\ reload.pc = "enum"
    /\ enum_fields' = ConfigGet(config, "enum_fields", {})
    /\ reload' = [reload EXCEPT !.pc = "titles"]
    /\ UNCHANGED << sync_vars, updaters, norm, config_file, config, readonly_fields, field_titles,
                    field_descriptions, sections_config, ui_config, values_file,
                    call, reader >>

\* Line 374
ReloadTitles ==
    /\ reload.pc = "titles"
    /\ field_titles' = ConfigGet(config, "field_titles", <<>>)
    /\ reload' = [reload EXCEPT !.pc = "descriptions"]
    /\ UNCHANGED << sync_vars, updaters, norm, config_file, config, readonly_fields, enum_fields,
                    field_descriptions, sections_config, ui_config, values_file,
                    call, reader >>

\* Line 375
ReloadDescriptions ==
    /\ reload.pc = "descriptions"
    /\ field_descriptions' = ConfigGet(config, "field_descriptions", <<>>)
    /\ reload' = [reload EXCEPT !.pc = "sections"]
    /\ UNCHANGED << sync_vars, updaters, norm, config_file, config, readonly_fields, enum_fields,
                    field_titles, sections_config, ui_config, values_file,
                    call, reader >>

\* Line 376
ReloadSections ==
    /\ reload.pc = "sections"
    /\ sections_config' = ConfigGet(config, "sections", <<>>)
    /\ reload' = [reload EXCEPT !.pc = "ui"]
    /\ UNCHANGED << sync_vars, updaters, norm, config_file, config, readonly_fields, enum_fields,
                    field_titles, field_descriptions, ui_config, values_file,
                    call, reader >>

\* Lines 377-379: the last assignment, and the response.
ReloadUi ==
    /\ reload.pc = "ui"
    /\ ui_config' = ConfigGet(config, "ui_config", <<>>)
    /\ reload' = [reload EXCEPT !.pc = "done"]
    /\ UNCHANGED << sync_vars, updaters, norm, config_file, config, readonly_fields, enum_fields,
                    field_titles, field_descriptions, sections_config, values_file,
                    call, reader >>

\* The request is answered; the next one may come.
ReloadReturn ==
    /\ reload.pc \in {"done", "failed"}
    /\ reload' = ReloadIdle
    /\ UNCHANGED << sync_vars, updaters, norm, config_file, globals, values_file, call, reader >>

reload_config ==
    \/ ReloadLoad \/ ReloadReadonly \/ ReloadEnum \/ ReloadTitles
    \/ ReloadDescriptions \/ ReloadSections \/ ReloadUi \/ ReloadReturn

\* create_json_schema on the document {environments: [dev, staging, prod]}: its
\* loads of the globals, in the order the code makes them.
\* Line 110: if ui_config
ReadUiConfig ==
    /\ reader.pc = "idle"
    /\ reader' = [ReaderIdle EXCEPT
                      !.pc = IF DOMAIN ui_config # {} THEN "ui_metadata" ELSE "sections",
                      !.ui_config = ui_config]
    /\ UNCHANGED << sync_vars, updaters, norm, config_file, globals, values_file, call, reload >>

\* Line 111: schema["ui_metadata"] = ui_config, the global loaded again.
UseUiConfig ==
    /\ reader.pc = "ui_metadata"
    /\ reader' = [reader EXCEPT !.pc = "sections", !.ui_metadata = ui_config]
    /\ UNCHANGED << sync_vars, updaters, norm, config_file, globals, values_file, call, reload >>

\* Line 114: if sections_config
ReadSections ==
    /\ reader.pc = "sections"
    /\ reader' = [reader EXCEPT
                      !.pc = IF DOMAIN sections_config # {} THEN "sections_member"
                             ELSE "enum",
                      !.sections_config = sections_config]
    /\ UNCHANGED << sync_vars, updaters, norm, config_file, globals, values_file, call, reload >>

\* Line 115: schema["sections"] = sections_config, the global loaded again.
UseSections ==
    /\ reader.pc = "sections_member"
    /\ reader' = [reader EXCEPT !.pc = "enum", !.sections = sections_config]
    /\ UNCHANGED << sync_vars, updaters, norm, config_file, globals, values_file, call, reload >>

\* Line 186, in process_value: is_enum(field_path)
ReadEnum ==
    /\ reader.pc = "enum"
    /\ reader' = [reader EXCEPT !.pc = "titles", !.enum_fields = enum_fields]
    /\ UNCHANGED << sync_vars, updaters, norm, config_file, globals, values_file, call, reload >>

\* Lines 193, 222: get_title(field_path); line 133: normalized in field_titles,
\* and line 137 when it is not.
ReadTitles ==
    /\ reader.pc = "titles"
    /\ reader' =
           IF normalize_path(k_environments) \in DOMAIN field_titles
           THEN [reader EXCEPT !.pc = "title", !.field_titles = field_titles]
           ELSE [reader EXCEPT !.pc = "readonly", !.field_titles = field_titles,
                               !.title = get_title_from_path(k_environments)]
    /\ UNCHANGED << sync_vars, updaters, norm, config_file, globals, values_file, call, reload >>

\* Line 134: return field_titles[normalized], the global loaded again; a key
\* that is gone raises KeyError, which get_schema answers with status 500.
UseTitles ==
    /\ reader.pc = "title"
    /\ reader' =
           IF normalize_path(k_environments) \in DOMAIN field_titles
           THEN [reader EXCEPT !.pc = "readonly", !.title_from = field_titles,
                               !.title = field_titles[normalize_path(k_environments)]]
           ELSE [reader EXCEPT !.pc = "failed", !.title_from = field_titles,
                               !.status = 500,
                               !.detail = <<"'">> \o normalize_path(k_environments)
                                              \o <<"'">>]
    /\ UNCHANGED << sync_vars, updaters, norm, config_file, globals, values_file, call, reload >>

\* Line 241, back in process_object: is_readonly(field_path)
ReadReadonly ==
    /\ reader.pc = "readonly"
    /\ reader' = [reader EXCEPT !.pc = "descriptions",
                                !.readonly_fields = readonly_fields]
    /\ UNCHANGED << sync_vars, updaters, norm, config_file, globals, values_file, call, reload >>

\* Line 245: get_description(field_path); the schema is complete and get_schema
\* answers with it.
ReadDescriptions ==
    /\ reader.pc = "descriptions"
    /\ reader' = [reader EXCEPT !.pc = "done", !.status = 200,
                                !.field_descriptions = field_descriptions]
    /\ UNCHANGED << sync_vars, updaters, norm, config_file, globals, values_file, call, reload >>

\* The request is answered; the next one may come.
ReaderReturn ==
    /\ reader.pc \in {"done", "failed"}
    /\ reader' = ReaderIdle
    /\ UNCHANGED << sync_vars, updaters, norm, config_file, globals, values_file, call, reload >>

schema_reader ==
    \/ ReadUiConfig \/ UseUiConfig \/ ReadSections \/ UseSections \/ ReadEnum
    \/ ReadTitles \/ UseTitles \/ ReadReadonly \/ ReadDescriptions \/ ReaderReturn

InitReload ==
    /\ norm = NormIdle
    /\ \E source \in ConfigSources :
           IsMapping(load_config(source)) /\ Startup(source)
    /\ values_file = Dict(k_environments :> EnvList)
    /\ call = NoCall
    /\ reload = ReloadIdle
    /\ reader = ReaderIdle
    /\ NoSync
    /\ updaters = NoUpdaters

NextReload == EditConfigFile \/ reload_config \/ schema_reader

SpecReload == InitReload /\ [][NextReload]_vars

\* The rule sets of one descriptor, as a synthesis looks them up.
RuleSets(cfg) ==
    [ui_config |-> ConfigGet(cfg, "ui_config", <<>>),
     sections_config |-> ConfigGet(cfg, "sections", <<>>),
     enum_fields |-> ConfigGet(cfg, "enum_fields", {}),
     field_titles |-> ConfigGet(cfg, "field_titles", <<>>),
     readonly_fields |-> ConfigGet(cfg, "readonly_fields", {}),
     field_descriptions |-> ConfigGet(cfg, "field_descriptions", <<>>)]

\* Every descriptor a load can yield; {} holds the rule sets of the defaults.
Versions == {DescriptorA, DescriptorB, DefaultConfig, EmptyConfig}

\* The rule sets a synthesis that has ended has loaded: all of them, or those
\* before the title when the title lookup raised.
LoadedRules ==
    IF reader.pc = "done"
    THEN {"ui_config", "sections_config", "enum_fields", "field_titles",
          "readonly_fields", "field_descriptions"}
    ELSE {"ui_config", "sections_config", "enum_fields", "field_titles"}

\* C4 (as claimed): a synthesis that runs beside reload_config finds all its
\* rule sets in one descriptor version: the one before or the one after the
\* reload, never some of each.
C4_ReaderSeesOneDescriptor ==
    reader.pc \in {"done", "failed"} =>
        \E cfg \in Versions :
            /\ \A rule \in LoadedRules : reader[rule] = RuleSets(cfg)[rule]
            /\ DOMAIN reader.ui_config # {} =>
                   reader.ui_metadata = RuleSets(cfg).ui_config
            /\ DOMAIN reader.sections_config # {} =>
                   reader.sections = RuleSets(cfg).sections_config
            /\ normalize_path(k_environments) \in DOMAIN reader.field_titles =>
                   reader.title_from = RuleSets(cfg).field_titles

\* A reload_config call has returned after its load failed.
FailedLoadReloaded == reload.pc = "done" /\ reload.source \in BrokenStates

\* C8: after a reload_config whose load failed (config.yaml missing, unreadable
\* or unparsable) the configuration is the default one and every rule set is
\* empty; none keeps what it held before.
C8_FailedLoadGivesEmptyDescriptor ==
    FailedLoadReloaded =>
        /\ config = DefaultConfig
        /\ readonly_fields = {}
        /\ enum_fields = {}
        /\ field_titles = <<>>
        /\ field_descriptions = <<>>
        /\ sections_config = <<>>
        /\ ui_config = <<>>

\* C8 witness: a reload whose load failed has emptied a read-only set that
\* held a path.
C8_Witness ==
    /\ FailedLoadReloaded
    /\ reload.before # {}
    /\ readonly_fields = {}

-----------------------------------------------------------------------------
(* normalize_path on its own: a path is normalised, and the result is      *)
(* normalised again.                                                        *)

NormalizeOnce ==
    /\ norm.pc = "start"
    /\ norm' = [norm EXCEPT !.pc = "once", !.once = normalize_path(norm.path)]
    /\ UNCHANGED << sync_vars, updaters, config_file, globals, values_file, call, reload, reader >>

NormalizeAgain ==
    /\ norm.pc = "once"
    /\ norm' = [norm EXCEPT !.pc = "twice", !.twice = normalize_path(norm.once)]
    /\ UNCHANGED << sync_vars, updaters, config_file, globals, values_file, call, reload, reader >>

InitNorm ==
    /\ \E path \in StringsUpTo(PathAlphabet, MaxPathLen) :
           norm = [pc |-> "start", path |-> path, once |-> <<>>, twice |-> <<>>]
    /\ Startup(ConfigBroken("missing"))
    /\ values_file = EmptyDict
    /\ call = NoCall
    /\ reload = ReloadIdle
    /\ reader = ReaderIdle
    /\ NoSync
    /\ updaters = NoUpdaters

NextNorm == NormalizeOnce \/ NormalizeAgain

SpecNorm == InitNorm /\ [][NextNorm]_vars

\* C7 (as claimed): normalising a normalised path changes nothing, for every
\* path over letters, digits, '.', '[' and ']', nested brackets included.
C7_NormalizeIdempotent == norm.pc = "twice" => norm.twice = norm.once

-----------------------------------------------------------------------------
(* The requests beside the git helper: one request against every setting   *)
(* of the helper, every state of the clone and every fate of the git calls. *)

DocNginx == Dict(k_image :> Str("nginx"))
DocCustom == Dict(k_image :> Str("custom"))

\* git_config of config.yaml as GitHelper.__init__ reads it.
SyncSettings ==
    {[enabled |-> e, repo_url |-> u, auto_push_on_update |-> a] :
        e \in BOOLEAN, u \in {"", "https://git.example/values.git"}, a \in BOOLEAN}

\* The clone once init_repository has set self.repo.
SyncClones ==
    {clone \in [head : {DocNginx}, remote : {DocNginx, DocCustom},
                worktree : {DocNginx, DocCustom, Missing}, untracked : BOOLEAN,
                ahead : BOOLEAN, behind : BOOLEAN] :
        (~clone.ahead /\ ~clone.behind) => clone.remote = clone.head}

\* The bodies of the update requests: one that changes nothing, two that do.
SyncUpdates == {Dict(k_image :> Str("nginx")), Dict(k_image :> Str("custom")),
                Dict(k_tag :> Str("2.0"))}

InitSync ==
    /\ norm = NormIdle
    /\ Startup(ConfigOk([readonly_fields |-> {p_image_repository}, enum_fields |-> {}]))
    /\ \E settings \in SyncSettings, fate \in InitFates, writable \in BOOLEAN :
          /\ git_helper = [enabled |-> settings.enabled, repo_url |-> settings.repo_url,
                           auto_push_on_update |-> settings.auto_push_on_update,
                           repo |-> init_repository(settings, fate)]
          /\ disk = [VALUES_FILE |-> values_file_at_startup(settings, fate),
                     writable |-> writable]
    /\ IF git_helper.repo = "Repo" THEN repo \in SyncClones ELSE repo = NoRepo
    /\ IF VALUES_FILE_in_clone THEN values_file = repo.worktree
       ELSE values_file \in {DocNginx, Missing}
    /\ call = NoCall
    /\ reload = ReloadIdle
    /\ reader = ReaderIdle
    /\ trace = <<>>
    /\ snapshot = repo
    /\ updaters = NoUpdaters

NextSync ==
    /\ call.op = "none"
    /\ \/ get_schema
       \/ get_values
       \/ \E data \in SyncUpdates : update_values(data)
       \/ git_pull
       \/ git_push
       \/ \E source \in {DocCustom, Missing} : SyncValuesFile(source)

SpecSync == InitSync /\ [][NextSync]_vars

\* The positions of an event in the trace of the request.
Positions(event) == {i \in 1..Len(trace) : trace[i] = event}
Happened(event) == Positions(event) # {}
Before(first, second) ==
    \E i \in Positions(first) : \E j \in Positions(second) : i < j

\* C11 (as claimed): with git integration enabled, every schema fetch and
\* every values fetch pulls before it reads the values file, and an update
\* commits and pushes after, and only after, it has written the merged
\* document.
C11_SyncAroundEveryRequest ==
    is_enabled =>
        /\ call.op \in {"schema", "values"} =>
               \/ Before("pull", "read")
               \/ Before("pull", "read raised")
        /\ call.op = "update" =>
               /\ Happened("commit_and_push") <=> Happened("write")
               /\ Happened("commit_and_push") => Before("write", "commit_and_push")

\* An update whose read, merge and local write succeeded.
WrittenUpdate == call.op = "update" /\ call.pre # Missing /\ disk.writable

\* C12: whenever the merge and the local write of an update succeed, the
\* request answers 200 with the message "Updated successfully" whatever the
\* commit/push step did, the merged document is the content of the values
\* file, and the outcome of the synchronisation is the `git` member of the
\* answer and nothing else of it.
C12_SyncFailureNeverRejects ==
    WrittenUpdate =>
        /\ call.status = 200
        /\ call.response.m.message = Str("Updated successfully")
        /\ values_file = Dict(update_nested_dict(call.pre.m, call.data.m, <<>>))
        /\ DOMAIN call.response.m =
               (IF is_enabled THEN {"message", "git"} ELSE {"message"})
        /\ is_enabled => call.response.m.git.success \in BOOLEAN

\* C12 witness: an update was written and answered with success although the
\* push of its commit failed.
C12_Witness ==
    /\ WrittenUpdate
    /\ call.status = 200
    /\ Happened("origin.push raised")
    /\ call.response.m.git.success = FALSE
    /\ values_file # call.pre

\* The library calls of the commit_and_push call of the request.
HelperCalled == call.op \in {"update", "git_push"} /\ Happened("commit_and_push")
PushAttempted == Happened("origin.push") \/ Happened("origin.push raised")
\* The working tree as commit_and_push found it: it never writes the values
\* file, and HEAD and the other files are as they were when the request began.
WasDirty == repo.worktree # snapshot.head \/ snapshot.untracked
HelperResult == IF call.op = "update" THEN call.response.m.git ELSE call.response

\* The push clause and the uninitialised-repository clause of C17.
PushOnlyAfterCommit ==
    /\ PushAttempted =>
           /\ git_helper.repo = "Repo"
           /\ WasDirty
           /\ git_helper.auto_push_on_update
           /\ Before("is_dirty", "index.add")
           /\ Before("index.add", "index.commit")
           /\ \/ Before("index.commit", "origin.push")
              \/ Before("index.commit", "origin.push raised")
    /\ git_helper.repo = "None" =>
           /\ HelperResult.success = FALSE
           /\ trace[Len(trace)] = "commit_and_push"
           /\ repo.head = snapshot.head /\ repo.remote = snapshot.remote

\* Nothing was staged, committed or pushed.
NothingCommitted ==
    /\ ~Happened("index.add") /\ ~Happened("index.commit")
    /\ ~PushAttempted
    /\ repo.head = snapshot.head /\ repo.remote = snapshot.remote

\* C17 (as claimed): commit_and_push attempts a push only if, earlier in the
\* same call, it found the repository initialised and the working tree dirty
\* and created a commit, and auto_push_on_update is set; on an uninitialised
\* repository it answers success=false and stages, commits and pushes nothing;
\* on a clean working tree it answers success=true and commits and pushes
\* nothing.
C17_PushOnlyWhatWasCommitted ==
    HelperCalled =>
        /\ PushOnlyAfterCommit
        /\ (git_helper.repo = "Repo" /\ ~WasDirty) =>
               /\ HelperResult.success = TRUE
               /\ NothingCommitted

\* C17 (amended): as claimed, but on a clean working tree the answer is
\* success=true only when the is_dirty check returns; when that check raises,
\* the answer is success=false, and nothing is committed or pushed either way.
C17_PushOnlyWhatWasCommittedOrCheckRaised ==
    HelperCalled =>
        /\ PushOnlyAfterCommit
        /\ (git_helper.repo = "Repo" /\ ~WasDirty) =>
               /\ HelperResult.success = Happened("is_dirty")
               /\ Happened("is_dirty") \/ Happened("is_dirty raised")
               /\ NothingCommitted

\* C17 witness: an update was written into a dirty clone, committed and pushed.
C17_Witness ==
    /\ call.op = "update"
    /\ Before("index.commit", "origin.push")
    /\ HelperResult.success = TRUE
    /\ repo.remote = values_file
    /\ repo.remote # snapshot.remote

RECURSIVE BracketDepth(_, _, _)
\* The number of '[' still open after s[i..], started with `open` of them
\* open; -1 once a ']' has come with none open.
BracketDepth(s, i, open) ==
    IF i > Len(s) THEN open
    ELSE IF s[i] = "[" THEN BracketDepth(s, i + 1, open + 1)
    ELSE IF s[i] = "]"
         THEN IF open = 0 THEN 0 - 1 ELSE BracketDepth(s, i + 1, open - 1)
    ELSE BracketDepth(s, i + 1, open)

\* A '[' without a matching ']', or the reverse.
Unbalanced(s) == BracketDepth(s, 1, 0) # 0

\* C15 (as claimed): normalize_path fails on no string, and returns every
\* path with an unbalanced bracket unchanged, also one that holds well-formed
\* [<digits>] segments elsewhere.
C15_MalformedPassedThrough ==
    (norm.pc \in {"once", "twice"} /\ Unbalanced(norm.path)) =>
        norm.once = norm.path

-----------------------------------------------------------------------------
(* The schema of arrays of objects: one schema request against values       *)
(* documents whose keys hold a list of mappings, under descriptors that     *)
(* title, protect and describe the arrays and the members of their items.   *)

k_address == <<"a", "d", "d", "r", "e", "s", "s">>
k_data == <<"d", "a", "t", "a">>
p_servers_name == FieldPath(k_servers, k_name)
p_servers_port == FieldPath(k_servers, k_port)

t_Servers == <<"S", "e", "r", "v", "e", "r", "s">>
t_Class == <<"C", "l", "a", "s", "s">>
t_Media == <<"M", "e", "d", "i", "a">>

ItemDocs ==
    {Dict(m) : m \in DictsOf((k_servers :> {ServerList}) @@
                             (k_address :> {ServerList}) @@
                             (k_data :> {ServerList}))}

ItemConfigs ==
    {[readonly_fields |-> r, enum_fields |-> {}, field_titles |-> t,
      field_descriptions |-> d] :
        r \in {{}, {k_servers}, {p_servers_name}},
        t \in {<<>>, k_servers :> t_Hosts, k_servers :> t_Servers,
               k_data :> t_Class, k_data :> t_Media},
        d \in {<<>>, k_servers :> t_Tag, p_servers_port :> t_Tag}}

InitItems ==
    /\ norm = NormIdle
    /\ \E doc \in ItemConfigs : Startup(ConfigOk(doc))
    /\ values_file \in ItemDocs
    /\ call = NoCall
    /\ reload = ReloadIdle
    /\ reader = ReaderIdle
    /\ NoSync
    /\ updaters = NoUpdaters

NextItems == call.op = "none" /\ get_schema

SpecItems == InitItems /\ [][NextItems]_vars

\* A title with one trailing "s" taken off, or followed by " Item" when it
\* does not end in "s".
Singular(title) ==
    IF title # <<>> /\ title[Len(title)] = "s"
    THEN SubSeq(title, 1, Len(title) - 1)
    ELSE title \o <<" ", "I", "t", "e", "m">>

\* C13 (as claimed): the item schema of an array of objects is titled with
\* the title configured for <path>[0] when there is one, unchanged, also when
\* it equals the derived title; otherwise with the array's title less exactly
\* one trailing "s", or followed by " Item" when it does not end in "s".
C13_ItemTitleSingular ==
    (call.op = "schema" /\ call.status = 200) =>
        \A key \in DOMAIN call.pre.m :
            LET array == call.response.properties[key]
                index_path == normalize_path(key \o <<"[", "0", "]">>)
            IN  (array.type = "array" /\ array.items.type = "object") =>
                    array.items.title =
                        (IF index_path \in DOMAIN field_titles
                         THEN field_titles[index_path]
                         ELSE Singular(array.title))

\* The read-only flag and the description a schema node carries are those
\* configured for the normalised form of its path.
NodeAnnotated(node, path) ==
    /\ ("readOnly" \in DOMAIN node /\ node.readOnly = TRUE)
           <=> normalize_path(path) \in readonly_fields
    /\ "description" \in DOMAIN node
           <=> normalize_path(path) \in DOMAIN field_descriptions
    /\ "description" \in DOMAIN node =>
           node.description = field_descriptions[normalize_path(path)]

RECURSIVE TreeAnnotated(_, _)
\* NodeAnnotated of a node, of its properties and of its item schema.
TreeAnnotated(node, path) ==
    /\ NodeAnnotated(node, path)
    /\ node.type = "object" =>
           \A key \in DOMAIN node.properties :
               TreeAnnotated(node.properties[key], FieldPath(path, key))
    /\ (node.type = "array" /\ node.items.type = "object") =>
           TreeAnnotated(node.items, path \o <<"[", "0", "]">>)

\* C14 (as claimed): every node of the schema, the item schema of an array of
\* objects at <path>[0] included, carries readOnly = true exactly when the
\* normalised form of its path is read-only, and a description exactly when
\* one is configured for the normalised form of its path.
C14_AnnotationsOnEveryNode ==
    (call.op = "schema" /\ call.status = 200) =>
        \A key \in DOMAIN call.response.properties :
            TreeAnnotated(call.response.properties[key], key)

-----------------------------------------------------------------------------
(* Two update_values requests on worker threads, statement by statement:    *)
(* each reads the values file (yaml.safe_load reads until a read returns    *)
(* nothing: one read that finds the text, or the empty file, and one more   *)
(* after a text), merges in memory, opens the file for writing (which       *)
(* empties it) and dumps its merged document.  No lock is taken.            *)
(* Each thread writes through its own file object, from the start of the    *)
(* file: a dump shorter than what another thread has dumped since the file  *)
(* was emptied leaves the end of the other dump in place.                   *)

Threads == {"first", "second"}

\* The orders in which a mapping may list the keys of `keys`.
KeyOrders(keys) ==
    {order \in [1..Cardinality(keys) -> keys] :
        \A i, j \in 1..Cardinality(keys) : i # j => order[i] # order[j]}

\* The text yaml.dump gives the scalars of these documents: a string that
\* reads as a number is quoted.
YamlScalar ==
    [nginx |-> <<"n", "g", "i", "n", "x">>,
     custom |-> <<"c", "u", "s", "t", "o", "m">>,
     qa |-> <<"q", "a">>, b |-> <<"b">>, dev |-> <<"d", "e", "v">>,
     staging |-> <<"s", "t", "a", "g", "i", "n", "g">>,
     prod |-> <<"p", "r", "o", "d">>] @@
    ("2.0" :> <<"'", "2", ".", "0", "'">>)

RECURSIVE YamlItems(_)
\* The block of a list of scalars: one "- item" line each.
YamlItems(items) ==
    IF items = <<>> THEN <<>>
    ELSE <<"-", " ">> \o YamlScalar[Head(items).v] \o <<"\n">> \o YamlItems(Tail(items))

\* One entry of a mapping in block style.
YamlEntry(key, value) ==
    IF value.t = "list"
    THEN IF value.items = <<>> THEN key \o <<":", " ", "[", "]", "\n">>
         ELSE key \o <<":", "\n">> \o YamlItems(value.items)
    ELSE key \o <<":", " ">> \o YamlScalar[value.v] \o <<"\n">>

RECURSIVE YamlEntries(_, _)
YamlEntries(doc, keys) ==
    IF keys = <<>> THEN <<>>
    ELSE YamlEntry(Head(keys), doc.m[Head(keys)]) \o YamlEntries(doc, Tail(keys))

\* yaml.dump(current_values, file, default_flow_style=False, sort_keys=False)
\* of a mapping of scalars and lists of scalars whose keys come in the order
\* `keys`.
yaml_dump(doc, keys) ==
    IF keys = <<>> THEN <<"{", "}", "\n">> ELSE YamlEntries(doc, keys)

\* A file whose bytes are no dump of one document.
Bytes(text) == [t |-> "bytes", text |-> text]

\* yaml.safe_load raised.
YamlError == [t |-> "error"]
\* yaml.safe_load returned `doc`, a mapping with its keys in the order `keys`.
Loaded(doc, keys) == [t |-> "loaded", doc |-> doc, keys |-> keys]

RECURSIVE SplitLines(_)
\* The lines of a text, without their line ends.
SplitLines(text) ==
    IF text = <<>> THEN <<>>
    ELSE IF \A i \in 1..Len(text) : text[i] # "\n" THEN <<text>>
    ELSE LET end == CHOOSE i \in 1..Len(text) :
                        text[i] = "\n" /\ \A j \in 1..(i - 1) : text[j] # "\n"
         IN  <<SubSeq(text, 1, end - 1)>> \o SplitLines(SubSeq(text, end + 1, Len(text)))

BlankLine(line) == \A i \in 1..Len(line) : line[i] = " "
PlainKey(chars) == chars # <<>> /\ \A i \in 1..Len(chars) : IsLower(chars[i])

\* The value a scalar of a block line is read as: the strings yaml_dump writes,
\* and [] for the empty sequence.
ScalarRead(chars) ==
    IF chars = <<"[", "]">> THEN List(<<>>)
    ELSE IF \E v \in DOMAIN YamlScalar : YamlScalar[v] = chars
    THEN Str(CHOOSE v \in DOMAIN YamlScalar : YamlScalar[v] = chars)
    ELSE YamlError

\* Where "key: value" divides, or 0.
EntryColon(line) ==
    IF \E i \in 1..(Len(line) - 1) : line[i] = ":" /\ line[i + 1] = " "
    THEN CHOOSE i \in 1..(Len(line) - 1) :
             /\ line[i] = ":" /\ line[i + 1] = " "
             /\ \A j \in 1..(i - 1) : ~(line[j] = ":" /\ line[j + 1] = " ")
    ELSE 0

\* The mapping m with the key set to the value; a key that is new comes last.
WithEntry(m, key, value) ==
    [k \in DOMAIN m \cup {key} |-> IF k = key THEN value ELSE m[k]]
KeysWith(keys, key) ==
    IF \E i \in 1..Len(keys) : keys[i] = key THEN keys ELSE Append(keys, key)

RECURSIVE BlockMapping(_, _, _, _)
\* A block mapping of plain keys over scalars and sequences of scalars, read
\* line by line: "key: scalar", or "key:" and the "- item" lines after it
\* (`open` is the key whose items are being read).  Any other line is one the
\* loader raises on.
BlockMapping(lines, m, keys, open) ==
    IF lines = <<>> THEN Loaded(Dict(m), keys)
    ELSE LET line == Head(lines)
             colon == EntryColon(line)
         IN  IF BlankLine(line) THEN BlockMapping(Tail(lines), m, keys, open)
             ELSE IF Len(line) > 2 /\ line[1] = "-" /\ line[2] = " "
             THEN LET item == ScalarRead(SubSeq(line, 3, Len(line)))
                  IN  IF open = <<>> \/ item.t # "scalar" THEN YamlError
                      ELSE BlockMapping(
                               Tail(lines),
                               WithEntry(m, open,
                                         List((IF m[open].t = "list"
                                               THEN m[open].items ELSE <<>>)
                                              \o <<item>>)),
                               keys, open)
             ELSE IF line[Len(line)] = ":" /\ PlainKey(SubSeq(line, 1, Len(line) - 1))
             THEN LET key == SubSeq(line, 1, Len(line) - 1)
                  IN  BlockMapping(Tail(lines), WithEntry(m, key, Null),
                                   KeysWith(keys, key), key)
             ELSE IF colon > 0 /\ PlainKey(SubSeq(line, 1, colon - 1))
             THEN LET key == SubSeq(line, 1, colon - 1)
                      value == ScalarRead(SubSeq(line, colon + 2, Len(line)))
                  IN  IF value = YamlError THEN YamlError
                      ELSE BlockMapping(Tail(lines), WithEntry(m, key, value),
                                        KeysWith(keys, key), <<>>)
             ELSE YamlError

\* yaml.safe_load of a text: nothing for an empty text, {} for the flow mapping
\* "{}" alone (more text after it raises), else a block mapping.
safe_load(text) ==
    LET lines == SelectSeq(SplitLines(text), LAMBDA line : ~BlankLine(line))
    IN  IF lines = <<>> THEN Loaded(Null, <<>>)
        ELSE IF Head(lines) = <<"{", "}">>
        THEN IF Len(lines) = 1 THEN Loaded(EmptyDict, <<>>) ELSE YamlError
        ELSE BlockMapping(SplitLines(text), <<>>, <<>>, <<>>)

\* An update_values thread: where it is, its body and the order of the keys
\* of the body, the text its first read() of the file returned, its
\* current_values and the order of their keys, the order of the keys of the
\* values file as it was before the requests, and the status of its answer.
Updater(data, data_keys, file_keys) ==
    [pc |-> "start", data |-> data, data_keys |-> data_keys, seen |-> <<>>,
     current_values |-> Absent, keys |-> <<>>, file_keys |-> file_keys,
     status |-> 0]

\* The thread, if any, whose dump is the content of the values file.
Dumpers == {u \in DOMAIN updaters :
               updaters[u].pc = "done" /\ updaters[u].current_values = values_file}

\* The bytes of the values file.
FileText ==
    IF values_file = Null THEN <<>>
    ELSE IF values_file.t = "bytes" THEN values_file.text
    ELSE IF Dumpers # {}
    THEN LET u == CHOOSE u \in Dumpers : TRUE
         IN  yaml_dump(updaters[u].current_values, updaters[u].keys)
    ELSE yaml_dump(values_file, updaters[CHOOSE t \in Threads : TRUE].file_keys)

\* Lines 297-298: the file is opened and yaml.safe_load makes its first read().
\* An empty file ends the load at once: nothing is loaded, and `or {}` gives {}.
UpdateRead(t) ==
    /\ t \in DOMAIN updaters
    /\ updaters[t].pc = "start"
    /\ updaters' =
           [updaters EXCEPT ![t] =
               IF values_file = Missing
               THEN [@ EXCEPT !.pc = "failed", !.status = 500]
               ELSE IF FileText = <<>>
               THEN [@ EXCEPT !.pc = "read",
                              !.current_values = LoadedOrEmpty(safe_load(<<>>).doc)]
               ELSE [@ EXCEPT !.pc = "reading", !.seen = FileText]]
    /\ UNCHANGED << sync_vars, norm, config_file, globals, values_file, call, reload,
                    reader >>

\* Line 298: yaml.safe_load reads on from where its first read() ended, finds
\* what the file holds beyond there by now, and loads the text of both reads.
\* A text that is no document raises: the request answers 500 and writes
\* nothing.
UpdateReadOn(t) ==
    /\ t \in DOMAIN updaters
    /\ updaters[t].pc = "reading"
    /\ LET seen == updaters[t].seen
           loaded == safe_load(seen \o SubSeq(FileText, Len(seen) + 1, Len(FileText)))
       IN  updaters' =
               [updaters EXCEPT ![t] =
                   IF loaded = YamlError
                   THEN [@ EXCEPT !.pc = "failed", !.status = 500]
                   ELSE [@ EXCEPT !.pc = "read",
                                  !.current_values = LoadedOrEmpty(loaded.doc),
                                  !.keys = loaded.keys]]
    /\ UNCHANGED << sync_vars, norm, config_file, globals, values_file, call, reload,
                    reader >>

\* Line 328: the update is merged into current_values; a key that is new
\* comes after the keys that are there.
UpdateMerge(t) ==
    /\ t \in DOMAIN updaters
    /\ updaters[t].pc = "read"
    /\ updaters' =
           [updaters EXCEPT ![t] =
               [@ EXCEPT !.pc = "merged",
                         !.current_values =
                             Dict(update_nested_dict(@.m, updaters[t].data.m, <<>>)),
                         !.keys =
                             @ \o SelectSeq(updaters[t].data_keys,
                                            LAMBDA key :
                                                key \notin DOMAIN
                                                    updaters[t].current_values.m)]]
    /\ UNCHANGED << sync_vars, norm, config_file, globals, values_file, call, reload,
                    reader >>

\* Line 331: open(VALUES_FILE, "w") empties the file.
UpdateOpen(t) ==
    /\ t \in DOMAIN updaters
    /\ updaters[t].pc = "merged"
    /\ updaters' = [updaters EXCEPT ![t].pc = "open"]
    /\ values_file' = Null
    /\ UNCHANGED << sync_vars, norm, config_file, globals, call, reload, reader >>

\* Line 332: yaml.dump, and the file is closed.  The dump is written over the
\* start of what the file holds by now.
UpdateDump(t) ==
    /\ t \in DOMAIN updaters
    /\ updaters[t].pc = "open"
    /\ updaters' = [updaters EXCEPT ![t].pc = "done", ![t].status = 200]
    /\ LET mine == yaml_dump(updaters[t].current_values, updaters[t].keys)
           there == FileText
       IN  values_file' =
               IF Len(there) <= Len(mine) THEN updaters[t].current_values
               ELSE Bytes(mine \o SubSeq(there, Len(mine) + 1, Len(there)))
    /\ UNCHANGED << sync_vars, norm, config_file, globals, call, reload, reader >>

\* The bodies of the two requests: no key is in both.
FirstUpdates == {Dict(k_image :> Str("custom")), Dict(k_tag :> Str("2.0"))}
SecondUpdates == {Dict(k_environments :> Str("qa")),
                  Dict((k_environments :> OtherList) @@ (k_servers :> Str("b")))}

ConcurrentDocs ==
    {Null, EmptyDict, DocNginx,
     Dict((k_image :> Str("nginx")) @@ (k_environments :> EnvList))}

InitConcurrent ==
    /\ norm = NormIdle
    /\ Startup(ConfigBroken("missing"))
    /\ values_file \in ConcurrentDocs
    /\ call = NoCall
    /\ reload = ReloadIdle
    /\ reader = ReaderIdle
    /\ NoSync
    /\ \E first \in FirstUpdates, second \in SecondUpdates :
       \E first_keys \in KeyOrders(DOMAIN first.m),
          second_keys \in KeyOrders(DOMAIN second.m),
          file_keys \in KeyOrders(DOMAIN LoadedOrEmpty(values_file).m) :
           updaters = [t \in Threads |->
                          IF t = "first" THEN Updater(first, first_keys, file_keys)
                          ELSE Updater(second, second_keys, file_keys)]

NextConcurrent ==
    \E t \in Threads :
        \/ UpdateRead(t) \/ UpdateReadOn(t) \/ UpdateMerge(t)
        \/ UpdateOpen(t) \/ UpdateDump(t)

SpecConcurrent == InitConcurrent /\ [][NextConcurrent]_vars

\* Both requests have dumped their document and answered 200.
BothDone == \A t \in Threads : updaters[t].pc = "done"

\* C16 (as claimed): once two concurrent updates of disjoint keys have both
\* completed, the values file holds what each of them wrote to its keys,
\* however their reads, merges and writes were interleaved.
C16_NoLostUpdate ==
    BothDone =>
        /\ values_file.t = "dict"
        /\ \A t \in Threads : \A key \in DOMAIN updaters[t].data.m :
               /\ key \in DOMAIN values_file.m
               /\ values_file.m[key] = updaters[t].data.m[key]

====
